---------------------------- MODULE Spec2Model ----------------------------
(***************************************************************************)
(* Random Radio (src/random_radio_ollama.py): the RandomRadio orchestrator *)
(* with its lock, queue cursor, mood hint, history, media player and TTS,  *)
(* driven by three threads: the thread that runs start(), the VLC event    *)
(* thread that delivers end-of-track notifications, and a front-end thread *)
(* that calls the control API.                                             *)
(*                                                                         *)
(* Text (album names, file names, commands, model answers) is a sequence   *)
(* of one-character strings, so that strip(), lower(), startswith(),       *)
(* slicing and pathlib's stem are computed, not assumed.                   *)
(*                                                                         *)
(* The generator expression of _choose_next_by_mood (lines 291-298) is     *)
(* written "a, p for a, p in ..." without the parentheses Python requires  *)
(* around the tuple; it is read here as "(a, p) for a, p in ...", the      *)
(* repair the interpreter's own message names.  Everything else is the     *)
(* statement-by-statement behaviour of the file.                           *)
(***************************************************************************)
EXTENDS Integers, Sequences, FiniteSets, TLC

VARIABLES
    ollama_up,      \* the Ollama service answers (TRUE) or every
                    \* OLLAMA.generate call raises (FALSE), for the whole run
    albums,         \* self.albums: sequence of [name, tracks] in dict order
    queue,          \* self.queue: sequence of [album, track]
    current_index,  \* self.current_index
    is_playing,     \* self.is_playing
    lock,           \* self.lock (threading.Lock): its holder, or Free
    history,        \* self.history
    mood_hint,      \* self.mood_hint: [kind: unset | none | str, text]
    player,         \* self.player: [state, media, volume]
    tts_waiting,    \* TTS._run threads started and not yet inside TTS._lock
    tts_busy,       \* some TTS._run thread holds TTS._lock
    tts_speaking,   \* TTS._run threads between engine.say and the return of
                    \* engine.runAndWait: utterances in progress
    voice,          \* the engine's "voice" property
    pc,             \* per thread: position in the code
    op,             \* per thread: the public operation it is executing
    cur,            \* per thread: (album, track) local of _play_current
    commentary,     \* per thread: commentary local of _play_current
    ask_failed,     \* per thread: OLLAMA.generate raised in _host_commentary
    exec_no,        \* per thread: serial number of its player.play() call
    mood_path,      \* per thread: mood_path local of _on_track_end
    idx,            \* per thread: index loaded by current_track_info
    info,           \* per thread: what its last call returned, when that
                    \* call was current_track_info
    result,         \* per thread: how its last operation ended: "ok" (the
                    \* method returned; perform_command then returns the
                    \* record of its branch), the name of the exception that
                    \* left it, or the result of a perform_command branch
                    \* that calls no method
    play_seq,       \* number of player.play() calls made by _play_current
    ops_left,       \* calls and track ends still allowed (model bound)
    user_paused,    \* the last of pause()/play() to run was pause()
    skips_called,   \* skip() calls made after the initial play of start()
    others_called,  \* other operations begun that move the cursor or start
                    \* a track: track ends, previous(), earlier skip() calls
    seen,           \* per thread: the entries that were current, between two
                    \* transitions, at some instant of its last
                    \* current_track_info call
    watching,       \* per thread: a transition that overlapped its last
                    \* current_track_info call has not yet settled
    trail,          \* the cursor values left by the latest consecutive
                    \* track-end transitions taken with no mood hint, from
                    \* the cursor they started at
    pause_mark,     \* play_seq and the history length as pause() left them,
                    \* until the next play(), skip(), previous() or
                    \* track-end notification; NoMark otherwise
    stop_mark       \* play_seq and the history length as the first stop
                    \* request left them; NoMark before it

vars == << ollama_up, albums, queue, current_index, is_playing, lock, history, mood_hint,
           player, tts_waiting, tts_busy, tts_speaking, voice, pc, op, cur,
           commentary, ask_failed, exec_no, mood_path, idx, info, result,
           play_seq, ops_left, user_paused, skips_called, others_called,
           seen, watching, trail, pause_mark, stop_mark >>

-----------------------------------------------------------------------------
(* Bounds of the model *)

\* front-end calls plus end-of-track events in one run
MaxOps == 3

-----------------------------------------------------------------------------
(* Text *)

\* str.lower() on one character
LowerChar(c) ==
    CASE c = "A" -> "a" [] c = "B" -> "b" [] c = "C" -> "c" [] c = "D" -> "d"
      [] c = "E" -> "e" [] c = "F" -> "f" [] c = "G" -> "g" [] c = "H" -> "h"
      [] c = "I" -> "i" [] c = "J" -> "j" [] c = "K" -> "k" [] c = "L" -> "l"
      [] c = "M" -> "m" [] c = "N" -> "n" [] c = "O" -> "o" [] c = "P" -> "p"
      [] c = "Q" -> "q" [] c = "R" -> "r" [] c = "S" -> "s" [] c = "T" -> "t"
      [] c = "U" -> "u" [] c = "V" -> "v" [] c = "W" -> "w" [] c = "X" -> "x"
      [] c = "Y" -> "y" [] c = "Z" -> "z" [] OTHER -> c

\* str.lower()
Lower(s) == [i \in 1..Len(s) |-> LowerChar(s[i])]

\* the characters str.strip() removes, among those a text of the model can
\* hold (ASCII): space, \t, \n, \r, \f (0x0c), and the control characters
\* 0x0b, 0x1c, 0x1d, 0x1e, 0x1f, written here as themselves
IsSpace(c) ==
    c \in {" ", "\t", "\n", "\r", "\f", "", "", "", "", ""}

RECURSIVE LStrip(_)
LStrip(s) == IF s # <<>> /\ IsSpace(Head(s)) THEN LStrip(Tail(s)) ELSE s

RECURSIVE RStrip(_)
RStrip(s) ==
    IF s # <<>> /\ IsSpace(s[Len(s)]) THEN RStrip(SubSeq(s, 1, Len(s) - 1))
    ELSE s

\* str.strip()
Strip(s) == RStrip(LStrip(s))

\* str.startswith(p)
StartsWith(s, p) == Len(s) >= Len(p) /\ SubSeq(s, 1, Len(p)) = p

\* s[n:]
DropFirst(s, n) == SubSeq(s, n + 1, Len(s))

\* needle in hay
Contains(hay, needle) ==
    \E i \in 0..(Len(hay) - Len(needle)) :
        SubSeq(hay, i + 1, i + Len(needle)) = needle

\* 1-based position of the last occurrence of c in s, 0 when there is none
LastIndexOf(s, c) ==
    IF \E i \in 1..Len(s) : s[i] = c
    THEN CHOOSE i \in 1..Len(s) :
             s[i] = c /\ \A j \in (i + 1)..Len(s) : s[j] # c
    ELSE 0

RECURSIVE PathName(_)
\* pathlib.PurePath(s).name (POSIX): the last component of the path, where
\* empty components (doubled or trailing slashes) and "." components do not
\* count; empty when no component is left
PathName(s) ==
    IF s = << >> THEN << >>
    ELSE LET k    == LastIndexOf(s, "/")
             last == DropFirst(s, k)
         IN  IF last = << >> \/ last = << "." >>
             THEN IF k = 0 THEN << >> ELSE PathName(SubSeq(s, 1, k - 1))
             ELSE last

\* pathlib.PurePath(s).stem: the name up to its last dot, the whole name
\* when the dot is its first or its last character
PathStem(s) ==
    LET name == PathName(s)
        i    == LastIndexOf(name, ".")
    IN  IF 1 < i /\ i < Len(name) THEN SubSeq(name, 1, i - 1) ELSE name

-----------------------------------------------------------------------------
(* Configuration *)

DEFAULT_DUCK_TO == 20
DEFAULT_MUSIC_VOL == 90

\* duck_to and music_vol of __init__, at their defaults
duck_to == DEFAULT_DUCK_TO
music_vol == DEFAULT_MUSIC_VOL

\* The string ask_ollama returns when the client raises.  The source has a
\* typographic apostrophe where this text has "'".
Fallback ==
    << "S","o","r","r","y",","," ","I"," ","c","o","u","l","d","n","'","t",
       " ","f","e","t","c","h"," ","a"," ","h","o","s","t"," ","l","i","n",
       "e"," ","r","i","g","h","t"," ","n","o","w","." >>

-----------------------------------------------------------------------------
(* Inputs *)

Threads == {"main", "vlc", "ui"}
UIThreads == {"ui"}
Free == "free"

\* Library indexes build_albums can return: two albums of one track each
\* (one file name in upper case), an album whose only track has the album's
\* name as its stem, and the empty index.
LibExample ==
    << [name |-> <<"A">>,
        tracks |-> << <<"t","1",".","m","p","3">> >>],
       [name |-> <<"B">>,
        tracks |-> << <<"T","2",".","m","p","3">> >>] >>

LibSelfTitled ==
    << [name |-> <<"s">>, tracks |-> << <<"s",".","m","p","3">> >>] >>

LibEmpty == << >>

\* an index of three tracks, the same file name in both albums
LibShared ==
    << [name |-> <<"A">>,
        tracks |-> << <<"t","1",".","m","p","3">>, <<"x",".","o","g","g">> >>],
       [name |-> <<"B">>,
        tracks |-> << <<"t","1",".","m","p","3">> >>] >>

Libraries == {LibExample, LibSelfTitled, LibEmpty}

\* Raw "response" texts of the model for the commentary prompt
CommentaryAnswers == { <<" ","o","k"," ">> }

\* Raw "response" texts of the model for the mood prompt: a file name of
\* the library in another case, a stem of the library with white space
\* around it, the self-titled track, nothing, white space only (a form feed
\* and a vertical tab), a lone dot
MoodAnswers ==
    { <<"t","2",".","M","P","3">>, <<" ","T","1","\n">>, <<"S">>, << >>,
      <<"\f","">>, <<".">> }

\* Voices of the speech engine, in enumeration order
Voices ==
    << [name |-> <<"A","l","e","x">>, id |-> <<"v","1">>],
       [name |-> <<"Z","i","r","a">>, id |-> <<"v","2">>] >>

DefaultVoice == <<"v","0">>

\* Command texts the front-ends send to perform_command
Commands ==
    { <<"s","k","i","p">>,
      <<" ","N","e","x","t"," ">>,
      <<"p","r","e","v">>,
      <<"p","a","u","s","e">>,
      <<"p","l","a","y">>,
      <<"m","o","o","d"," ","C","h","i","l","l">>,
      <<"M","O","O","D">>,
      <<"n","o","w">>,
      <<"v","o","i","c","e"," ","Z","I">>,
      <<"b","o","g","u","s">>,
      <<"m","o","o","d">>,
      <<"m","o","o","d"," "," ","c","h","i","l","l"," ">>,
      <<"m","o","o","d","y">>,
      <<"v","o","i","c","e">>,
      << >>,
      <<"s","t","o","p">>,
      <<"\f","n","o","w","">> }

-----------------------------------------------------------------------------
(* Values *)

NoText == << >>
NoEntry == [album |-> NoText, track |-> NoText]

MoodUnset == [kind |-> "unset", text |-> NoText]   \* no such attribute
MoodNone == [kind |-> "none", text |-> NoText]     \* None
MoodText(s) == [kind |-> "str", text |-> s]

\* truth value of self.mood_hint once the attribute exists
Truthy(m) == m.kind = "str" /\ m.text # NoText

RECURSIVE Flatten(_, _, _)
\* the (album, track) pairs of the index from album i, track j on, in the
\* order of the two nested loops
Flatten(lib, i, j) ==
    IF i > Len(lib) THEN << >>
    ELSE IF j > Len(lib[i].tracks) THEN Flatten(lib, i + 1, 1)
    ELSE << [album |-> lib[i].name, track |-> lib[i].tracks[j]] >>
         \o Flatten(lib, i, j + 1)

AllPairs(lib) == Flatten(lib, 1, 1)

\* the orders random.shuffle can leave a list in
Shuffles(s) ==
    { q \in [1..Len(s) -> {s[i] : i \in 1..Len(s)}] :
        \A i, j \in 1..Len(s) : i # j => q[i] # q[j] }

\* a queue drawn from the pairs with repeats allowed
rebuild_queue_with_repeats(lib) ==
    LET s == AllPairs(lib)
    IN  [1..Len(s) -> {s[i] : i \in 1..Len(s)}]

\* RandomRadio._rebuild_queue
rebuild_queue(lib) == Shuffles(AllPairs(lib))

\* d[k] = v on a dict kept as a sequence of [key, value] in insertion order
DictPut(d, k, v) ==
    IF \E i \in 1..Len(d) : d[i].key = k
    THEN [i \in 1..Len(d) |-> IF d[i].key = k
                              THEN [key |-> k, value |-> v] ELSE d[i]]
    ELSE Append(d, [key |-> k, value |-> v])

RECURSIVE TitleMapFrom(_, _, _)
TitleMapFrom(pairs, i, d) ==
    IF i > Len(pairs) THEN d
    ELSE TitleMapFrom(pairs, i + 1,
                      DictPut(d, Lower(PathStem(pairs[i].track)), pairs[i]))

\* RandomRadio.title_map: stem.lower() -> (album, track)
title_map(lib) == TitleMapFrom(AllPairs(lib), 1, << >>)

\* ask_ollama: the stripped response, or the fallback when the client raises
ask_ollama(ok, response) == IF ok THEN Strip(response) ELSE Fallback

\* The filter the spec describes: the value's track matches the answer's
\* stem case-insensitively, in whatever album it is
MoodFilter_any_album(a, p, album, stem) ==
    IF Lower(PathStem(p.track)) = stem THEN "true" ELSE "false"

\* The filter of _choose_next_by_mood on one item (a, p) of title_map.items():
\* a is the key (a lower-case stem) and p the value (an (album, track) tuple).
\* "a == album and p.stem.lower() == stem" is false when a differs from the
\* album name and otherwise evaluates p.stem on a tuple: AttributeError.
MoodFilter(a, p, album, stem) == IF a = album THEN "raise" ELSE "false"

RECURSIVE MoodScan(_, _, _, _)
\* next(generator, (None, None)) over the items from position i on
MoodScan(items, i, album, stem) ==
    IF i > Len(items) THEN [kind |-> "none", entry |-> NoEntry]
    ELSE LET r == MoodFilter(items[i].key, items[i].value, album, stem)
         IN  IF r = "raise" THEN [kind |-> "raise", entry |-> NoEntry]
             ELSE IF r = "true"
                  THEN [kind |-> "found", entry |-> items[i].value]
                  ELSE MoodScan(items, i + 1, album, stem)

\* RandomRadio._choose_next_by_mood after ask_ollama has returned response
choose_next_by_mood(lib, current, response) ==
    LET ans == Lower(Strip(response))
    IN  IF ans = NoText THEN [kind |-> "none", entry |-> NoEntry]
        ELSE MoodScan(title_map(lib), 1, current.album, PathStem(ans))

\* TTS.set_voice: the id of the first voice whose name contains the
\* substring, case-insensitively, or None (NoText)
set_voice(substring) ==
    IF substring = NoText THEN NoText
    ELSE IF \E i \in 1..Len(Voices) :
                Contains(Lower(Voices[i].name), Lower(substring))
         THEN Voices[CHOOSE i \in 1..Len(Voices) :
                  /\ Contains(Lower(Voices[i].name), Lower(substring))
                  /\ \A j \in 1..(i - 1) :
                        ~Contains(Lower(Voices[j].name), Lower(substring))].id
         ELSE NoText

-----------------------------------------------------------------------------
(* The media player (python-vlc MediaPlayer) *)

NoMedia == NoText

\* player.stop()
PlayerStop(p) == [p EXCEPT !.state = "stopped"]

\* player.play(): starts or resumes the loaded media, nothing without one
PlayerPlay(p) == IF p.media = NoMedia THEN p ELSE [p EXCEPT !.state = "playing"]

\* player.pause(): toggles between playing and paused
PlayerPause(p) ==
    IF p.state = "playing" THEN [p EXCEPT !.state = "paused"]
    ELSE IF p.state = "paused" THEN [p EXCEPT !.state = "playing"]
    ELSE p

\* player.audio_set_volume(v)
PlayerVolume(p, v) == [p EXCEPT !.volume = v]

\* player.is_playing()
PlayerIsPlaying(p) == p.state = "playing"

\* player.set_media(media) with the media of a track
PlayerSetMedia(p, track) == [p EXCEPT !.media = track]

-----------------------------------------------------------------------------
(* Initial state: RandomRadio.__init__ has run *)

\* __init__ never assigns self.db_conn (it only stores db_dsn), and nothing
\* else in the file does: the attribute does not exist
db_conn_defined == FALSE

NoMoodPath == [kind |-> "none", entry |-> NoEntry]

\* no pause() is in force
NoMark == [set |-> FALSE, seq |-> 0, len |-> 0]

Init ==
    /\ ollama_up \in BOOLEAN
    /\ albums \in Libraries
    /\ queue \in rebuild_queue(albums)
    /\ current_index = 0
    /\ is_playing = FALSE
    /\ lock = Free
    /\ history = << >>
    /\ mood_hint = MoodUnset
    /\ player = [state |-> "stopped", media |-> NoMedia, volume |-> 100]
    /\ tts_waiting = 0
    /\ tts_busy = FALSE
    /\ tts_speaking = 0
    /\ voice = DefaultVoice
    /\ pc = [t \in Threads |-> IF t = "main" THEN "init" ELSE "idle"]
    /\ op = [t \in Threads |-> "none"]
    /\ cur = [t \in Threads |-> NoEntry]
    /\ commentary = [t \in Threads |-> NoText]
    /\ ask_failed = [t \in Threads |-> FALSE]
    /\ exec_no = [t \in Threads |-> 0]
    /\ mood_path = [t \in Threads |-> NoMoodPath]
    /\ idx = [t \in Threads |-> 0]
    /\ info = [t \in Threads |-> NoEntry]
    /\ result = [t \in Threads |-> "none"]
    /\ play_seq = 0
    /\ ops_left = MaxOps
    /\ user_paused = FALSE
    /\ skips_called = 0
    /\ others_called = 0
    /\ seen = [t \in Threads |-> {}]
    /\ watching = [t \in Threads |-> FALSE]
    /\ pause_mark = NoMark
    /\ stop_mark = NoMark
    /\ trail = << 0 >>

-----------------------------------------------------------------------------
(* Bookkeeping shared by the actions *)

\* where a thread rests between operations
Home(t) == IF t = "main" THEN "done" ELSE "idle"

\* self.queue[self.current_index], NoEntry when the index is out of range
CurrentEntry(q, i) == IF i + 1 \in 1..Len(q) THEN q[i + 1] ELSE NoEntry

\* positions between the cursor advance of _on_track_end and the end of its
\* mood step: the transition has not yet settled on its entry
MidTransition == {"te_mood", "mood_ask", "te_apply", "te_reset"}

\* positions inside current_track_info
Reading == {"cti_load", "cti_sub"}

\* a transition has settled with queue q and cursor i: every
\* current_track_info call it overlapped may return that entry
Settle(q, i) ==
    /\ seen' = [r \in Threads |->
                  IF pc[r] \in Reading \/ watching[r]
                  THEN seen[r] \cup {CurrentEntry(q, i)} ELSE seen[r]]
    /\ watching' = [r \in Threads |-> FALSE]

\* the thread leaves its operation: by return (res is what it returns) or by
\* an exception nobody catches (res is its name).  Leaving a "with self.lock"
\* block either way releases the lock.
Finish(t, res) ==
    /\ pc' = [pc EXCEPT ![t] = Home(t)]
    /\ op' = [op EXCEPT ![t] = "none"]
    /\ result' = [result EXCEPT ![t] = res]
    /\ cur' = [cur EXCEPT ![t] = NoEntry]
    /\ commentary' = [commentary EXCEPT ![t] = NoText]
    /\ ask_failed' = [ask_failed EXCEPT ![t] = FALSE]
    /\ exec_no' = [exec_no EXCEPT ![t] = 0]
    /\ mood_path' = [mood_path EXCEPT ![t] = NoMoodPath]
    /\ idx' = [idx EXCEPT ![t] = 0]
    /\ lock' = IF lock = t THEN Free ELSE lock

\* the thread moves on inside its operation
Goto(t, label) ==
    /\ pc' = [pc EXCEPT ![t] = label]
    /\ UNCHANGED << op, result >>

Locals == << cur, commentary, ask_failed, exec_no, mood_path, idx >>
Radio == << ollama_up, albums, queue, current_index, is_playing, history,
           mood_hint >>
Tts == << tts_waiting, tts_busy, tts_speaking, voice >>
Counters == << user_paused, skips_called, others_called, pause_mark,
              stop_mark >>
Ghosts == << Counters, trail >>
Readers == << info, seen, watching >>

-----------------------------------------------------------------------------
(* start() *)

\* start() without its empty-queue check
start_call_no_check ==
    /\ pc["main"] = "init"
    /\ pc' = [pc EXCEPT !["main"] = "play_entry"]
    /\ op' = [op EXCEPT !["main"] = "start"]
    /\ UNCHANGED << result, Locals, lock >>
    /\ UNCHANGED << Radio, player, Tts, play_seq, ops_left, Ghosts, Readers >>

\* lines 416-422: the empty-queue check, then the call of _play_current,
\* made without taking self.lock
start_call ==
    /\ pc["main"] = "init"
    /\ IF queue = << >>
       THEN /\ Finish("main", "aborted")
       ELSE /\ pc' = [pc EXCEPT !["main"] = "play_entry"]
            /\ op' = [op EXCEPT !["main"] = "start"]
            /\ UNCHANGED << result, Locals, lock >>
    /\ UNCHANGED << Radio, player, Tts, play_seq, ops_left, Ghosts, Readers >>

-----------------------------------------------------------------------------
(* _play_current and _host_commentary: "begin playing an entry" *)

\* _play_current returns normally to its caller: start() goes on to its
\* watchdog loop, _on_track_end and previous() leave their "with" block
play_current_return(t) ==
    IF op[t] = "start"
    THEN /\ pc' = [pc EXCEPT ![t] = "start_loop"]
         /\ cur' = [cur EXCEPT ![t] = NoEntry]
         /\ commentary' = [commentary EXCEPT ![t] = NoText]
         /\ ask_failed' = [ask_failed EXCEPT ![t] = FALSE]
         /\ exec_no' = [exec_no EXCEPT ![t] = 0]
         /\ UNCHANGED << op, result, mood_path, idx, lock >>
    ELSE Finish(t, "ok")

\* lines 333-338: the empty-queue return, then album, track = queue[index]
play_current_entry(t) ==
    /\ pc[t] = "play_entry"
    /\ IF queue = << >>
       THEN play_current_return(t)
       ELSE IF current_index + 1 \notin 1..Len(queue)
       THEN Finish(t, "IndexError")
       ELSE /\ Goto(t, "play_music")
            /\ cur' = [cur EXCEPT ![t] = queue[current_index + 1]]
            /\ UNCHANGED << commentary, ask_failed, exec_no, mood_path, idx,
                            lock >>
    /\ UNCHANGED << Radio, player, Tts, play_seq, ops_left, Ghosts, Readers >>

\* lines 341-345 are four calls on the player, each a step of its own: the
\* caller may hold the lock or not (start() does not, line 422), so the calls
\* of two executions interleave.

\* line 341: self.player.stop()
play_current_stop(t) ==
    /\ pc[t] = "play_music"
    /\ player' = PlayerStop(player)
    /\ Goto(t, "play_media")
    /\ UNCHANGED << Radio, Tts, lock, Locals, play_seq, ops_left, Ghosts,
                    Readers >>

\* lines 342-343: media_new(str(track)) and self.player.set_media(media)
play_current_set_media(t) ==
    /\ pc[t] = "play_media"
    /\ player' = PlayerSetMedia(player, cur[t].track)
    /\ Goto(t, "play_volume")
    /\ UNCHANGED << Radio, Tts, lock, Locals, play_seq, ops_left, Ghosts,
                    Readers >>

\* line 344: self.player.audio_set_volume(self.music_vol)
play_current_volume(t) ==
    /\ pc[t] = "play_volume"
    /\ player' = PlayerVolume(player, music_vol)
    /\ Goto(t, "play_start")
    /\ UNCHANGED << Radio, Tts, lock, Locals, play_seq, ops_left, Ghosts,
                    Readers >>

\* line 345: self.player.play(); the execution is numbered by its play()
play_current_music(t) ==
    /\ pc[t] = "play_start"
    /\ player' = PlayerPlay(player)
    /\ play_seq' = play_seq + 1
    /\ exec_no' = [exec_no EXCEPT ![t] = play_seq + 1]
    /\ Goto(t, "host_ask")
    /\ UNCHANGED << Radio, Tts, lock, cur, commentary, ask_failed, mood_path,
                    idx, ops_left, Ghosts, Readers >>

\* lines 382-389: the blocking call of ask_ollama, and on its return the
\* duck of the music and the FX stinger (a player of its own).  The thread
\* stands at "host_ask" while the call is in flight.
host_commentary_ask(t) ==
    /\ pc[t] = "host_ask"
    /\ \E r \in CommentaryAnswers :
          commentary' = [commentary EXCEPT ![t] = ask_ollama(ollama_up, r)]
    /\ ask_failed' = [ask_failed EXCEPT ![t] = ~ollama_up]
    /\ player' = PlayerVolume(player, duck_to)
    /\ Goto(t, "host_speak")
    /\ UNCHANGED << Radio, Tts, lock, cur, exec_no, mood_path, idx,
                    play_seq, ops_left, Ghosts, Readers >>

\* _host_commentary with a speak() that takes the engine itself and so waits
\* for the utterance in progress: the dispatch blocks while the voice is busy
host_commentary_speak_blocking(t) ==
    /\ pc[t] = "host_speak"
    /\ ~tts_busy
    /\ tts_waiting' = tts_waiting + 1
    /\ Goto(t, "host_restore")
    /\ UNCHANGED << Radio, player, tts_busy, tts_speaking, voice, lock,
                    Locals, play_seq, ops_left, Ghosts, Readers >>

\* line 392: TTS.speak starts a thread that will run _run and does not wait
\* for its utterance; the new thread may begin to speak before the caller
\* goes on
host_commentary_speak(t) ==
    /\ pc[t] = "host_speak"
    /\ tts_waiting' = tts_waiting + 1
    /\ Goto(t, "host_restore")
    /\ UNCHANGED << Radio, player, tts_busy, tts_speaking, voice, lock,
                    Locals, play_seq, ops_left, Ghosts, Readers >>

\* _host_commentary without the audio_set_volume(self.music_vol) of line 395
host_commentary_restore_skipped(t) ==
    /\ pc[t] = "host_restore"
    /\ Goto(t, "play_log")
    /\ UNCHANGED << Radio, player, Tts, lock, Locals, play_seq, ops_left,
                    Ghosts, Readers >>

\* lines 395-397: the music volume again, and the return
host_commentary_restore(t) ==
    /\ pc[t] = "host_restore"
    /\ player' = PlayerVolume(player, music_vol)
    /\ Goto(t, "play_log")
    /\ UNCHANGED << Radio, Tts, lock, Locals, play_seq, ops_left, Ghosts,
                    Readers >>

\* the history entry of lines 353-358 (the timestamp is left out; exec is
\* the serial number of the player.play() call this entry belongs to)
HistoryEntry(t) ==
    [album |-> cur[t].album, track |-> cur[t].track,
     commentary |-> commentary[t], exec |-> exec_no[t]]

\* _play_current with history.insert(0, entry) for history.append(entry)
play_current_log_prepend(t) ==
    /\ pc[t] = "play_log"
    /\ history' = << HistoryEntry(t) >> \o history
    /\ Goto(t, "play_sink")
    /\ UNCHANGED << ollama_up, albums, queue, current_index, is_playing,
                    mood_hint, player, Tts, lock, Locals, play_seq, ops_left,
                    Ghosts, Readers >>

\* lines 353-359: the entry is appended to the history; the execution is
\* still inside _play_current, and its caller still holds the lock it took
play_current_log(t) ==
    /\ pc[t] = "play_log"
    /\ history' = Append(history, HistoryEntry(t))
    /\ Goto(t, "play_sink")
    /\ UNCHANGED << ollama_up, albums, queue, current_index, is_playing,
                    mood_hint, player, Tts, lock, Locals, play_seq, ops_left,
                    Ghosts, Readers >>

\* what the CSV sink of lines 361-367 does with a row: no export_csv is
\* configured, the row is written, or open/writerow raises
CsvOutcomes == {"off", "written", "failed"}

\* lines 361-367 on one outcome of the sink: the block is skipped, the row
\* is written, or the exception is caught and a warning logged; the block
\* raises nothing (the file itself is outside the model)
CsvBlock(csv) ==
    CASE csv = "off" -> "skipped"
      [] csv = "written" -> "row"
      [] csv = "failed" -> "warning"

\* lines 361-374: the thread goes through the CSV block (file I/O, during
\* which other threads run), which ends the same way whatever the sink
\* does, then tests self.db_conn: the attribute does not exist, so the test
\* raises AttributeError, outside the try of line 371, and only now the
\* execution leaves _play_current and the "with self.lock" of its caller
play_current_sink(t) ==
    /\ pc[t] = "play_sink"
    /\ \A csv \in CsvOutcomes : CsvBlock(csv) # "raise"
    /\ IF db_conn_defined
       THEN play_current_return(t)
       ELSE Finish(t, "AttributeError")
    /\ UNCHANGED << Radio, player, Tts, play_seq, ops_left, Ghosts, Readers >>

\* the same step, taken with the sink doing csv
play_current_log_sink(t, csv) ==
    /\ csv \in CsvOutcomes
    /\ CsvBlock(csv) # "raise"
    /\ play_current_sink(t)

-----------------------------------------------------------------------------
(* TTS._run, one thread per speak() call *)

\* TTS._run without "with self._lock": a waiting thread starts to speak
\* whether or not another one is speaking
tts_run_begin_no_lock ==
    /\ tts_waiting > 0
    /\ tts_waiting' = tts_waiting - 1
    /\ tts_busy' = TRUE
    /\ tts_speaking' = tts_speaking + 1
    /\ UNCHANGED << Radio, player, voice, lock, pc, op, result, Locals,
                    play_seq, ops_left, Ghosts, Readers >>

\* "with self._lock": one waiting thread gets the lock and starts to speak
tts_run_begin ==
    /\ tts_waiting > 0
    /\ ~tts_busy
    /\ tts_waiting' = tts_waiting - 1
    /\ tts_busy' = TRUE
    /\ tts_speaking' = tts_speaking + 1
    /\ UNCHANGED << Radio, player, voice, lock, pc, op, result, Locals,
                    play_seq, ops_left, Ghosts, Readers >>

\* runAndWait returns and the lock is released
tts_run_end ==
    /\ tts_busy
    /\ tts_speaking > 0
    /\ tts_speaking' = tts_speaking - 1
    /\ tts_busy' = FALSE
    /\ UNCHANGED << Radio, player, tts_waiting, voice, lock, pc, op,
                    result, Locals, play_seq, ops_left, Ghosts, Readers >>

-----------------------------------------------------------------------------
(* _on_track_end *)

\* VLC reaches the end of the playing track and calls the handler attached
\* in __init__ on its event thread
track_end_event ==
    /\ pc["vlc"] = "idle"
    /\ PlayerIsPlaying(player)
    /\ ops_left > 0
    /\ player' = [player EXCEPT !.state = "ended"]
    /\ pc' = [pc EXCEPT !["vlc"] = "te_lock"]
    /\ op' = [op EXCEPT !["vlc"] = "track_end"]
    /\ ops_left' = ops_left - 1
    /\ others_called' = others_called + 1
    /\ pause_mark' = NoMark
    /\ UNCHANGED << Radio, Tts, lock, result, Locals, play_seq,
                    user_paused, skips_called, trail, stop_mark, Readers >>

\* the advance without the modulo
advance_no_wrap(i, n) == i + 1

\* line 317: (self.current_index + 1) % len(self.queue)
advance(i, n) == (i + 1) % n

\* lines 315-317: "with self.lock" on a threading.Lock, which nobody can
\* take while it is held, its holder included; then the cursor advance
on_track_end_enter(t) ==
    /\ pc[t] = "te_lock"
    /\ lock = Free
    /\ IF Len(queue) = 0
       THEN /\ Finish(t, "ZeroDivisionError")
            /\ UNCHANGED << current_index, trail >>
       ELSE /\ lock' = t
            /\ current_index' = advance(current_index, Len(queue))
            /\ trail' = Append(trail, current_index')
            /\ Goto(t, "te_mood")
            /\ UNCHANGED Locals
    /\ UNCHANGED << ollama_up, albums, queue, is_playing, history, mood_hint, player,
                    Tts, play_seq, ops_left, Counters, Readers >>

\* line 319: "if self.mood_hint".  __init__ never creates the attribute; it
\* exists only once perform_command has handled a mood command
on_track_end_mood(t) ==
    /\ pc[t] = "te_mood"
    /\ IF mood_hint.kind = "unset"
       THEN Finish(t, "AttributeError")
       ELSE /\ Goto(t, IF Truthy(mood_hint) THEN "mood_ask" ELSE "play_entry")
            /\ UNCHANGED << Locals, lock >>
    /\ IF mood_hint.kind = "unset" \/ ~Truthy(mood_hint)
       THEN Settle(queue, current_index)
       ELSE UNCHANGED << seen, watching >>
    /\ trail' = IF mood_hint.kind # "unset" /\ Truthy(mood_hint)
                THEN << current_index >> ELSE trail
    /\ UNCHANGED << Radio, player, Tts, play_seq, ops_left, Counters, info >>

\* line 320, _choose_next_by_mood: the blocking call of ask_ollama and the
\* lookup of its answer; the step is the return of the method
choose_next_by_mood_return(t, r) ==
    /\ pc[t] = "mood_ask"
    /\ LET found == choose_next_by_mood(
                        albums, CurrentEntry(queue, current_index),
                        ask_ollama(ollama_up, r))
       IN  IF found.kind = "raise"
           THEN /\ Finish(t, "AttributeError")
                /\ Settle(queue, current_index)
           ELSE /\ Goto(t, "te_apply")
                /\ mood_path' = [mood_path EXCEPT ![t] = found]
                /\ UNCHANGED << cur, commentary, ask_failed, exec_no, idx,
                                lock, seen, watching >>
    /\ UNCHANGED << Radio, player, Tts, play_seq, ops_left, Ghosts, info >>

\* the same, whatever the model answers
choose_next_by_mood_ask(t) ==
    \E r \in MoodAnswers : choose_next_by_mood_return(t, r)

\* lines 321-324: "if mood_path", queue.insert(0, mood_path), then
\* current_index = 0, as two steps
on_track_end_apply(t) ==
    /\ pc[t] \in {"te_apply", "te_reset"}
    /\ IF pc[t] = "te_apply"
       THEN IF mood_path[t].kind = "found"
            THEN /\ queue' = << mood_path[t].entry >> \o queue
                 /\ Goto(t, "te_reset")
                 /\ UNCHANGED << current_index, seen, watching >>
            ELSE /\ Goto(t, "play_entry")
                 /\ Settle(queue, current_index)
                 /\ UNCHANGED << queue, current_index >>
       ELSE /\ current_index' = 0
            /\ Goto(t, "play_entry")
            /\ Settle(queue, 0)
            /\ UNCHANGED queue
    /\ trail' = IF pc[t] = "te_reset" THEN << 0 >> ELSE trail
    /\ UNCHANGED << ollama_up, albums, is_playing, history, mood_hint, player, Tts, lock,
                    Locals, play_seq, ops_left, Counters, info >>

-----------------------------------------------------------------------------
(* skip, previous, pause, play, current_track_info *)

\* the first position of each public method
Entry(name) ==
    CASE name = "skip" -> "skip_lock"
      [] name = "previous" -> "previous_lock"
      [] name = "pause" -> "pause_lock"
      [] name = "play" -> "play_lock"
      [] name = "now" -> "cti_load"

\* a transition is between its cursor advance and its settling
InTransition == \E h \in Threads : pc[h] \in MidTransition

\* start() is past its first _play_current
InitialPlayDone == pc["main"] \in {"start_loop", "done"} /\ history # << >>

\* a thread enters a public method
Enter(t, name) ==
    /\ pc' = [pc EXCEPT ![t] = Entry(name)]
    /\ op' = [op EXCEPT ![t] = name]
    /\ result' = [result EXCEPT ![t] = "none"]
    /\ skips_called' = IF name = "skip" /\ InitialPlayDone
                       THEN skips_called + 1 ELSE skips_called
    /\ others_called' = IF \/ name = "previous"
                           \/ name = "skip" /\ ~InitialPlayDone
                        THEN others_called + 1 ELSE others_called
    /\ seen' = [seen EXCEPT ![t] =
                  IF name # "now" THEN {}
                  ELSE IF InTransition THEN {}
                  ELSE {CurrentEntry(queue, current_index)}]
    /\ watching' = [watching EXCEPT ![t] = FALSE]
    /\ info' = [info EXCEPT ![t] = NoEntry]
    /\ pause_mark' = IF name \in {"play", "skip", "previous"}
                     THEN NoMark ELSE pause_mark
    /\ UNCHANGED << user_paused, trail, stop_mark, Locals, lock >>

\* a front-end thread calls skip(), previous(), pause(), play() or
\* current_track_info() on the radio
api_call(t, name) ==
    /\ pc[t] = "idle"
    /\ ops_left > 0
    /\ ops_left' = ops_left - 1
    /\ Enter(t, name)
    /\ UNCHANGED << Radio, player, Tts, play_seq >>

\* skip(), lines 440-442: take the lock, stop the player, call
\* _on_track_end(None) with the lock held
skip_enter(t) ==
    /\ pc[t] = "skip_lock"
    /\ lock = Free
    /\ lock' = t
    /\ player' = PlayerStop(player)
    /\ Goto(t, "te_lock")
    /\ UNCHANGED << Radio, Tts, Locals, play_seq, ops_left, Ghosts, Readers >>

\* the step back without the floor
retreat_no_floor(i) == i - 1

\* line 446: max(0, self.current_index - 1)
retreat(i) == IF i - 1 > 0 THEN i - 1 ELSE 0

\* previous(), lines 445-446: take the lock, step the cursor back with a
\* floor of 0
previous_enter(t) ==
    /\ pc[t] = "previous_lock"
    /\ lock = Free
    /\ lock' = t
    /\ current_index' = retreat(current_index)
    /\ Goto(t, "previous_stop")
    /\ Settle(queue, current_index')
    /\ trail' = << current_index' >>
    /\ UNCHANGED << ollama_up, albums, queue, is_playing, history, mood_hint,
                    player, Tts, Locals, play_seq, ops_left, Counters, info >>

\* previous(), lines 447-448: stop the player, call _play_current
previous_stop(t) ==
    /\ pc[t] = "previous_stop"
    /\ player' = PlayerStop(player)
    /\ Goto(t, "play_entry")
    /\ UNCHANGED << Radio, Tts, lock, Locals, play_seq, ops_left, Ghosts,
                    Readers >>

\* pause(), lines 451-452: take the lock, self.player.pause()
pause_enter(t) ==
    /\ pc[t] = "pause_lock"
    /\ lock = Free
    /\ lock' = t
    /\ player' = PlayerPause(player)
    /\ Goto(t, "pause_flag")
    /\ UNCHANGED << Radio, Tts, Locals, play_seq, ops_left, Ghosts, Readers >>

\* pause(), line 453 and the end of the "with" block: the playing flag, the
\* lock released
pause_run(t) ==
    /\ pc[t] = "pause_flag"
    /\ UNCHANGED player
    /\ is_playing' = FALSE
    /\ user_paused' = TRUE
    /\ pause_mark' = [set |-> TRUE, seq |-> play_seq, len |-> Len(history)]
    /\ Finish(t, "ok")
    /\ UNCHANGED << ollama_up, albums, queue, current_index, history, mood_hint, Tts,
                    play_seq, ops_left, skips_called, others_called, trail,
                    stop_mark, Readers >>

\* play(), lines 456-457: take the lock, self.player.play()
play_enter(t) ==
    /\ pc[t] = "play_lock"
    /\ lock = Free
    /\ lock' = t
    /\ player' = PlayerPlay(player)
    /\ Goto(t, "play_resume")
    /\ UNCHANGED << Radio, Tts, Locals, play_seq, ops_left, Ghosts, Readers >>

\* play(), line 458: self.player.audio_set_volume(self.music_vol)
play_set_volume(t) ==
    /\ pc[t] = "play_resume"
    /\ player' = PlayerVolume(player, music_vol)
    /\ Goto(t, "play_flag")
    /\ UNCHANGED << Radio, Tts, lock, Locals, play_seq, ops_left, Ghosts,
                    Readers >>

\* play(), line 459 and the end of the "with" block: the playing flag, the
\* lock released
play_run(t) ==
    /\ pc[t] = "play_flag"
    /\ is_playing' = TRUE
    /\ user_paused' = FALSE
    /\ Finish(t, "ok")
    /\ UNCHANGED << ollama_up, albums, queue, current_index, history, mood_hint,
                    player, Tts, play_seq, ops_left, skips_called,
                    others_called, Readers, trail, pause_mark, stop_mark >>

\* current_track_info, line 462, first half: self.queue and
\* self.current_index are loaded, with no lock taken
current_track_info_load(t) ==
    /\ pc[t] = "cti_load"
    /\ idx' = [idx EXCEPT ![t] = current_index]
    /\ Goto(t, "cti_sub")
    /\ UNCHANGED << Radio, player, Tts, lock, cur, commentary, ask_failed,
                    exec_no, mood_path, play_seq, ops_left, Ghosts, Readers >>

\* current_track_info, lines 462-463, second half: the subscript on the
\* list as it is now, and the return
current_track_info_sub(t) ==
    /\ pc[t] = "cti_sub"
    /\ IF idx[t] + 1 \in 1..Len(queue)
       THEN /\ info' = [info EXCEPT ![t] = queue[idx[t] + 1]]
            /\ Finish(t, "ok")
       ELSE /\ info' = [info EXCEPT ![t] = NoEntry]
            /\ Finish(t, "IndexError")
    /\ watching' = [watching EXCEPT ![t] = InTransition]
    /\ UNCHANGED << Radio, player, Tts, play_seq, ops_left, Ghosts, seen >>

-----------------------------------------------------------------------------
(* perform_command *)

W_skip == <<"s","k","i","p">>
W_next == <<"n","e","x","t">>
W_prev == <<"p","r","e","v">>
W_previous == <<"p","r","e","v","i","o","u","s">>
W_back == <<"b","a","c","k">>
W_pause == <<"p","a","u","s","e">>
W_stop == <<"s","t","o","p">>
W_play == <<"p","l","a","y">>
W_mood == <<"m","o","o","d">>
W_mood_sp == <<"m","o","o","d"," ">>
W_now == <<"n","o","w">>
W_voice_sp == <<"v","o","i","c","e"," ">>

\* line 473: cmd = (cmd or "").strip().lower()
normalize(raw) == Lower(Strip(raw))

\* the branches with the mood prefix tested without its space
command_kind_loose_prefix(cmd) ==
    IF cmd \in {W_skip, W_next} THEN "skip"
    ELSE IF cmd \in {W_prev, W_previous, W_back} THEN "previous"
    ELSE IF cmd \in {W_pause, W_stop} THEN "pause"
    ELSE IF cmd = W_play THEN "play"
    ELSE IF StartsWith(cmd, W_mood) /\ cmd # W_mood THEN "mood-set"
    ELSE IF cmd = W_mood THEN "mood-cleared"
    ELSE IF cmd = W_now THEN "now"
    ELSE IF StartsWith(cmd, W_voice_sp) THEN "voice-chosen"
    ELSE "unknown command"

\* lines 474-499: the branch a normalized command takes, in the order of
\* the tests
command_kind(cmd) ==
    IF cmd \in {W_skip, W_next} THEN "skip"
    ELSE IF cmd \in {W_prev, W_previous, W_back} THEN "previous"
    ELSE IF cmd \in {W_pause, W_stop} THEN "pause"
    ELSE IF cmd = W_play THEN "play"
    ELSE IF StartsWith(cmd, W_mood_sp) THEN "mood-set"
    ELSE IF cmd = W_mood THEN "mood-cleared"
    ELSE IF cmd = W_now THEN "now"
    ELSE IF StartsWith(cmd, W_voice_sp) THEN "voice-chosen"
    ELSE "unknown command"

\* line 473 and the tests of lines 474-499 on every command text of the
\* model, computed once
CommandTable ==
    [raw \in Commands |->
        [cmd |-> normalize(raw), kind |-> command_kind(normalize(raw))]]

\* perform_command(raw) up to the call of the method it dispatches to; the
\* mood, voice and unknown branches are the whole call.  The mood hint is
\* assigned with no lock taken.
perform_command(t, raw) ==
    LET cmd  == CommandTable[raw].cmd
        kind == CommandTable[raw].kind
    IN  /\ pc[t] = "idle"
        /\ ops_left > 0
        /\ ops_left' = ops_left - 1
        /\ IF kind \in {"skip", "previous", "pause", "play", "now"}
           THEN /\ Enter(t, kind)
                /\ UNCHANGED << mood_hint, voice >>
           ELSE /\ mood_hint' =
                      IF kind = "mood-set"
                      THEN MoodText(Strip(DropFirst(cmd, 5)))
                      ELSE IF kind = "mood-cleared" THEN MoodNone
                      ELSE mood_hint
                /\ voice' =
                      IF kind = "voice-chosen"
                         /\ set_voice(Strip(DropFirst(cmd, 6))) # NoText
                      THEN set_voice(Strip(DropFirst(cmd, 6)))
                      ELSE voice
                /\ result' = [result EXCEPT ![t] = kind]
                /\ UNCHANGED << pc, op, Locals, lock, Ghosts, Readers >>
        /\ UNCHANGED << ollama_up, albums, queue, current_index, is_playing, history,
                        player, tts_waiting, tts_busy, tts_speaking,
                        play_seq >>

-----------------------------------------------------------------------------
(* Front-end controls that do not go through the methods above *)

\* app_flask.py, route /pause: RADIO.player.pause(), on the player directly
flask_pause(t) ==
    /\ pc[t] = "idle"
    /\ ops_left > 0
    /\ ops_left' = ops_left - 1
    /\ player' = PlayerPause(player)
    /\ user_paused' = TRUE
    /\ result' = [result EXCEPT ![t] = "ok"]
    /\ UNCHANGED << Radio, Tts, lock, pc, op, Locals, play_seq, skips_called,
                    others_called, trail, pause_mark, stop_mark, Readers >>

\* app_flask.py, route /play: RADIO.player.play(), on the player directly
flask_play(t) ==
    /\ pc[t] = "idle"
    /\ ops_left > 0
    /\ ops_left' = ops_left - 1
    /\ player' = PlayerPlay(player)
    /\ user_paused' = FALSE
    /\ pause_mark' = NoMark
    /\ result' = [result EXCEPT ![t] = "ok"]
    /\ UNCHANGED << Radio, Tts, lock, pc, op, Locals, play_seq, skips_called,
                    others_called, trail, stop_mark, Readers >>

\* radio_app.py, button "Previous", lines 147-149:
\* radio.idx = (radio.idx - 1) % len(radio.queue), then
\* radio._play_current().  RandomRadio has no attribute idx (its cursor is
\* current_index), so reading radio.idx raises before anything is assigned
\* or played.
radio_app_prev(t) ==
    /\ pc[t] = "idle"
    /\ ops_left > 0
    /\ ops_left' = ops_left - 1
    /\ result' = [result EXCEPT ![t] = "AttributeError"]
    /\ UNCHANGED << Radio, player, Tts, lock, pc, op, Locals, play_seq,
                    Ghosts, Readers >>

\* the first stop request freezes the mark
Stopping ==
    stop_mark' = IF stop_mark.set THEN stop_mark
                 ELSE [set |-> TRUE, seq |-> play_seq, len |-> Len(history)]

\* stop_all(), lines 434-437: player.stop(), then "if self.db_conn", an
\* attribute that does not exist.  No lock is taken and nothing is recorded
\* on the radio.
stop_all(t) ==
    /\ pc[t] = "idle"
    /\ ops_left > 0
    /\ ops_left' = ops_left - 1
    /\ player' = PlayerStop(player)
    /\ Stopping
    /\ result' = [result EXCEPT ![t] =
                     IF db_conn_defined THEN "ok" ELSE "AttributeError"]
    /\ UNCHANGED << Radio, Tts, lock, pc, op, Locals, play_seq, user_paused,
                    skips_called, others_called, pause_mark, trail, Readers >>

\* radio_app.py, _stop_radio, lines 65-71: radio.player.stop() and the
\* session forgets the radio and its thread; the thread running start() and
\* the player's callback are not told
radio_app_stop(t) ==
    /\ pc[t] = "idle"
    /\ ops_left > 0
    /\ ops_left' = ops_left - 1
    /\ player' = PlayerStop(player)
    /\ Stopping
    /\ result' = [result EXCEPT ![t] = "ok"]
    /\ UNCHANGED << Radio, Tts, lock, pc, op, Locals, play_seq, user_paused,
                    skips_called, others_called, pause_mark, trail, Readers >>

-----------------------------------------------------------------------------
(* The program *)

Next ==
    \/ start_call
    \/ \E t \in Threads : play_current_entry(t)
    \/ \E t \in Threads : play_current_stop(t)
    \/ \E t \in Threads : play_current_set_media(t)
    \/ \E t \in Threads : play_current_volume(t)
    \/ \E t \in Threads : play_current_music(t)
    \/ \E t \in Threads : host_commentary_ask(t)
    \/ \E t \in Threads : host_commentary_speak(t)
    \/ \E t \in Threads : host_commentary_restore(t)
    \/ \E t \in Threads : play_current_log(t)
    \/ \E t \in Threads : play_current_sink(t)
    \/ tts_run_begin
    \/ tts_run_end
    \/ track_end_event
    \/ \E t \in Threads : on_track_end_enter(t)
    \/ \E t \in Threads : on_track_end_mood(t)
    \/ \E t \in Threads : choose_next_by_mood_ask(t)
    \/ \E t \in Threads : on_track_end_apply(t)
    \/ \E t \in UIThreads :
          \E name \in {"skip", "previous", "pause", "play", "now"} :
             api_call(t, name)
    \/ \E t \in UIThreads : skip_enter(t)
    \/ \E t \in UIThreads : previous_enter(t)
    \/ \E t \in UIThreads : previous_stop(t)
    \/ \E t \in UIThreads : pause_run(t)
    \/ \E t \in UIThreads : pause_enter(t)
    \/ \E t \in UIThreads : play_enter(t)
    \/ \E t \in UIThreads : play_set_volume(t)
    \/ \E t \in UIThreads : play_run(t)
    \/ \E t \in UIThreads : current_track_info_load(t)
    \/ \E t \in UIThreads : current_track_info_sub(t)
    \/ \E t \in UIThreads : \E raw \in Commands : perform_command(t, raw)
    \/ \E t \in UIThreads : flask_pause(t)
    \/ \E t \in UIThreads : flask_play(t)
    \/ \E t \in UIThreads : radio_app_prev(t)
    \/ \E t \in UIThreads : stop_all(t)
    \/ \E t \in UIThreads : radio_app_stop(t)

Spec == Init /\ [][Next]_vars

-----------------------------------------------------------------------------
(* Vocabulary of the properties *)

\* every step a thread can take inside an operation it has begun
ThreadStep(t) ==
    \/ play_current_entry(t)
    \/ play_current_stop(t)
    \/ play_current_set_media(t)
    \/ play_current_volume(t)
    \/ play_current_music(t)
    \/ host_commentary_ask(t)
    \/ host_commentary_speak(t)
    \/ host_commentary_restore(t)
    \/ play_current_log(t)
    \/ play_current_sink(t)
    \/ on_track_end_enter(t)
    \/ on_track_end_mood(t)
    \/ choose_next_by_mood_ask(t)
    \/ on_track_end_apply(t)
    \/ skip_enter(t)
    \/ previous_enter(t)
    \/ previous_stop(t)
    \/ pause_enter(t)
    \/ pause_run(t)
    \/ play_enter(t)
    \/ play_set_volume(t)
    \/ play_run(t)
    \/ current_track_info_load(t)
    \/ current_track_info_sub(t)

\* positions of the "begin playing an entry" sub-protocol
BeginPlaying == {"play_entry", "play_music", "play_media", "play_volume",
                 "play_start", "host_ask", "host_speak", "host_restore",
                 "play_log", "play_sink"}

\* positions of a begin-playing execution whose track the player has started
\* and whose history entry is not yet appended
Started == {"host_ask", "host_speak", "host_restore", "play_log"}

\* positions at which a thread waits to take self.lock
LockWait == {"te_lock", "skip_lock", "previous_lock", "pause_lock",
             "play_lock"}

\* exceptions that leave an operation
Failures == {"AttributeError", "ZeroDivisionError", "IndexError"}

\* no thread is inside an operation
Quiet == \A t \in Threads : pc[t] \in {"init", "idle", "done", "start_loop"}

-----------------------------------------------------------------------------
(* C1 *)

\* C1: from cursor 0 after the initial play, with no mood hint set and a
\* non-empty queue, N calls of skip() all complete (none waits for a lock
\* that only itself could release) and, once they have, the cursor is
\* N mod L and the history has N + 1 entries.
C1_SkipsAdvanceCursor ==
    ( /\ InitialPlayDone
      /\ queue # << >>
      /\ mood_hint.kind # "str"
      /\ others_called = 0 )
    => /\ \A t \in Threads : ~(op[t] = "skip" /\ pc[t] = "te_lock" /\ lock = t)
       /\ (\A t \in Threads : op[t] # "skip")
             => /\ current_index = skips_called % Len(queue)
                /\ Len(history) = skips_called + 1

-----------------------------------------------------------------------------
(* C2 *)

\* C2: a thread that is inside the begin-playing sub-protocol or between the
\* cursor advance and the end of a track-end transition holds the lock, at
\* most one thread is at such a position, and every step that changes the
\* mood hint is taken by a thread holding the lock.
C2_MutationsUnderLock ==
    /\ [](/\ \A t \in Threads :
                pc[t] \in BeginPlaying \cup MidTransition => lock = t
          /\ Cardinality({t \in Threads :
                pc[t] \in BeginPlaying \cup MidTransition}) <= 1)
    /\ [][mood_hint' # mood_hint
            => \E t \in Threads : lock = t /\ result'[t] # result[t]]_vars

-----------------------------------------------------------------------------
(* C3 *)

\* C3: a skip() call that no other thread's lock keeps waiting can always
\* take its next step, so that it returns and releases the lock: no call
\* stands still while it holds the lock or while the lock is free.
C3_SkipReturns ==
    \A t \in Threads :
        (op[t] = "skip" /\ lock \in {Free, t}) => ENABLED ThreadStep(t)

-----------------------------------------------------------------------------
(* C4 *)

\* C4: the history is in playback start order: of two entries, the one
\* whose track was started on the player first comes first.
C4_HistoryInStartOrder ==
    \A i, j \in 1..Len(history) :
        i < j => history[i].exec < history[j].exec

-----------------------------------------------------------------------------
(* C5 *)

\* the serial numbers of the begin-playing executions that have started
\* their track and not yet appended their entry
InFlight == {exec_no[t] : t \in {u \in Threads : pc[u] \in Started}}

\* C5: the history only grows at its end (in every step the old history is
\* a prefix of the new one), and it holds exactly one entry for each
\* begin-playing execution that has run to its end or stands past its
\* append: with N such executions it has N entries.
C5_HistoryAppendOnly ==
    /\ [][/\ Len(history') >= Len(history)
          /\ SubSeq(history', 1, Len(history)) = history]_vars
    /\ [](/\ Len(history) = play_seq - Cardinality(InFlight)
          /\ {history[i].exec : i \in 1..Len(history)}
                = (1..play_seq) \ InFlight
          /\ \A i, j \in 1..Len(history) :
                history[i].exec = history[j].exec => i = j)

\* two executions have ended, and nothing is in flight
C5_Witness == Quiet /\ Len(history) >= 2 /\ InFlight = {}

-----------------------------------------------------------------------------
(* C6 *)

\* the entry a begin-playing execution of thread t owes the history when
\* the commentary source has failed
FallbackEntry(t) ==
    [album |-> cur[t].album, track |-> cur[t].track,
     commentary |-> Fallback, exec |-> exec_no[t]]

\* C6: when every call of the commentary source fails, each begin-playing
\* execution still completes: it leaves _play_current by returning to its
\* caller, not by an exception, and by then the history holds exactly one
\* entry for the track it started, with the fallback string as commentary.
C6_FallbackCommentary ==
    [][\A t \in Threads :
          (~ollama_up /\ pc[t] = "play_sink" /\ pc'[t] # "play_sink") =>
             /\ result'[t] \notin Failures
             /\ Cardinality({i \in 1..Len(history') :
                                history'[i] = FallbackEntry(t)}) = 1
             /\ \A i \in 1..Len(history') :
                   history'[i].exec = exec_no[t]
                      => history'[i] = FallbackEntry(t)]_vars

-----------------------------------------------------------------------------
(* C7 *)

\* C7: no operation ends in a failure nobody handles, and start() leaves its
\* initial play for its supervisory loop: it returns only when the queue
\* is empty.
C7_NoUnhandledFailure ==
    /\ \A t \in Threads : result[t] \notin Failures
    /\ pc["main"] = "done" => result["main"] = "aborted"

-----------------------------------------------------------------------------
(* C8 *)

\* C8: while the commentary source call of a track-end transition or of
\* previous() is in flight, a pause() or skip() that waits for the lock can
\* take it.
C8_CommandsDuringCommentary ==
    \A t, u \in Threads :
        ( /\ pc[t] \in {"host_ask", "mood_ask"}
          /\ op[t] \in {"track_end", "previous"}
          /\ pc[u] \in {"pause_lock", "skip_lock"} )
        => ENABLED (pause_enter(u) \/ skip_enter(u))

-----------------------------------------------------------------------------
(* C9 *)

\* C9: what current_track_info returns is an entry that was current between
\* two transitions at some instant of the call: the entry current before a
\* transition the call overlaps or the entry current after it.  (The
\* verdict on a call waits for the transition it overlapped to settle.)
C9_NoTornRead ==
    \A t \in Threads :
        (info[t] # NoEntry /\ ~watching[t]) => info[t] \in seen[t]

\* a call has returned that overlapped a track-end transition taken with a
\* mood hint set, which changed the current entry
C9_Witness ==
    \E t \in Threads :
        /\ info[t] # NoEntry
        /\ ~watching[t]
        /\ Cardinality(seen[t]) = 2
        /\ mood_hint.kind = "str"

-----------------------------------------------------------------------------
(* C10 *)

\* C10: whenever start() has begun playback, the last of pause()/play() was
\* not pause(), the player is not playing and no operation is under way,
\* the supervisory loop of start() is there to play the current entry again.
C10_SelfHealing ==
    ( /\ InitialPlayDone
      /\ ~user_paused
      /\ ~PlayerIsPlaying(player)
      /\ \A t \in Threads : pc[t] \in {"idle", "done", "start_loop"} )
    => pc["main"] = "start_loop"

-----------------------------------------------------------------------------
(* C11 *)

\* C11: after pause() and until the next play(), skip(), previous() or
\* track-end notification, no begin-playing execution starts a track (the
\* player is not restarted) and the history does not grow.
C11_PauseHonoured ==
    pause_mark.set =>
        /\ play_seq = pause_mark.seq
        /\ Len(history) = pause_mark.len

-----------------------------------------------------------------------------
(* C12 *)

\* C12: every pause() and play(), of the radio and of the web front-end,
\* leaves the cursor, the queue, the mood hint and the history as they were;
\* pause() leaves the playing flag false and play() leaves it true.
C12_PausePlayFrame ==
    [][\A t \in Threads :
         /\ (pause_run(t) \/ flask_pause(t)) =>
               /\ UNCHANGED << current_index, queue, mood_hint, history >>
               /\ is_playing' = FALSE
         /\ (play_run(t) \/ flask_play(t)) =>
               /\ UNCHANGED << current_index, queue, mood_hint, history >>
               /\ is_playing' = TRUE
         /\ (pause_enter(t) \/ play_enter(t) \/ play_set_volume(t)) =>
               /\ UNCHANGED << current_index, queue, mood_hint, history >>
               /\ pc'[t] \in {"pause_flag", "play_resume", "play_flag"}]_vars

-----------------------------------------------------------------------------
(* C13 *)

\* C13: previous(), and the "previous" control of every front-end, leaves
\* the cursor at max(0, cursor - 1) (never negative, never wrapped to the
\* end, 0 stays 0) and goes on to begin playing the entry at that cursor.
C13_PreviousFloorsAtZero ==
    [][\A t \in Threads :
         /\ (previous_enter(t) \/ radio_app_prev(t)) =>
               /\ current_index' = IF current_index = 0 THEN 0
                                   ELSE current_index - 1
               /\ pc'[t] = IF previous_enter(t) THEN "previous_stop"
                           ELSE "play_entry"
         /\ previous_stop(t) =>
               /\ current_index' = current_index
               /\ pc'[t] = "play_entry"]_vars

-----------------------------------------------------------------------------
(* C14 *)

RECURSIVE AdvanceTimes(_, _, _)
\* the cursor after k advances from cursor i on a queue of length n
AdvanceTimes(i, n, k) ==
    IF k = 0 THEN i ELSE AdvanceTimes(advance(i, n), n, k - 1)

\* C14: with no mood hint set, L consecutive track-end transitions on a
\* queue of length L bring the cursor back to where it started and pass
\* through every position of the queue exactly once: in the run (every
\* window of L transitions of the trail), and for every starting cursor by
\* the arithmetic of the advance.
C14_AdvanceCycles ==
    LET L == Len(queue)
    IN  /\ \A i \in 1..Len(trail) :
              i + L <= Len(trail) =>
                 /\ trail[i + L] = trail[i]
                 /\ {trail[k] : k \in i..(i + L - 1)} = 0..(L - 1)
        /\ \A s \in 0..(L - 1) :
              /\ AdvanceTimes(s, L, L) = s
              /\ {AdvanceTimes(s, L, k) : k \in 0..(L - 1)} = 0..(L - 1)

\* two consecutive track ends on a queue of two entries, no mood hint
C14_Witness ==
    /\ Len(queue) = 2
    /\ Len(trail) = 3
    /\ ~Truthy(mood_hint)
    /\ Quiet

-----------------------------------------------------------------------------
(* C15 *)

\* start() has found its queue non-empty and gone on to play
StartedPlayback == pc["main"] # "init" /\ result["main"] # "aborted"

\* C15: in every state after start() has begun playback the queue is not
\* empty and the cursor is a position of it: 0 <= cursor < len(queue).
C15_CursorInRange ==
    StartedPlayback =>
        /\ queue # << >>
        /\ current_index >= 0
        /\ current_index < Len(queue)

\* previous() has been called at cursor 0 after start() began playback, and
\* a track end has moved the cursor off 0
C15_Witness ==
    /\ StartedPlayback
    /\ Len(queue) = 2
    /\ \/ \E t \in Threads :
             op[t] = "previous" /\ pc[t] = "play_entry" /\ current_index = 0
       \/ current_index = 1 /\ Len(trail) = 2

-----------------------------------------------------------------------------
(* C16 *)

\* C16: start() on an empty queue returns at once with the error reported
\* (the result "aborted"): its one step starts nothing on the player and
\* appends nothing, it never calls _play_current and never stands in its
\* supervisory loop.
C16_StartAbortsOnEmptyQueue ==
    /\ []((queue = << >> /\ pc["main"] # "init") =>
             /\ pc["main"] = "done"
             /\ op["main"] = "none"
             /\ result["main"] = "aborted"
             /\ play_seq = 0
             /\ history = << >>)
    /\ [][(queue = << >> /\ pc["main"] = "init" /\ pc'["main"] # "init")
            => UNCHANGED << player, history, play_seq, queue, current_index,
                            is_playing, lock >>]_vars

\* start() has returned from an empty queue
C16_Witness ==
    /\ queue = << >>
    /\ pc["main"] = "done"
    /\ result["main"] = "aborted"

-----------------------------------------------------------------------------
(* C17 *)

\* the (album, track) positions of an index
Slots(lib) ==
    UNION { {<< i, j >> : j \in 1..Len(lib[i].tracks)} : i \in 1..Len(lib) }

\* q holds each (album, track) pair of the index exactly once and nothing
\* else
IsPermutationOfIndex(q, lib) ==
    LET PairAt(s) == [album |-> lib[s[1]].name, track |-> lib[s[1]].tracks[s[2]]]
    IN  /\ Len(q) = Cardinality(Slots(lib))
        /\ \A s \in Slots(lib) :
              Cardinality({k \in 1..Len(q) : q[k] = PairAt(s)}) = 1
        /\ \A k \in 1..Len(q) : \E s \in Slots(lib) : q[k] = PairAt(s)

\* C17: the queue built at construction is a permutation of the
\* (album, track) pairs of the library index, whatever order the shuffle
\* leaves: for the index of the run, and for every queue _rebuild_queue can
\* build from an index of three tracks in two albums.
C17_QueueIsPermutation ==
    /\ pc["main"] = "init" => IsPermutationOfIndex(queue, albums)
    /\ (pc["main"] = "init" /\ ops_left = MaxOps) =>
          \A q \in rebuild_queue(LibShared) : IsPermutationOfIndex(q, LibShared)

\* a queue of two entries that the shuffle left in the other order than the
\* index
C17_Witness ==
    /\ pc["main"] = "init"
    /\ Len(queue) = 2
    /\ queue[1].album = albums[2].name
    /\ queue[2].album = albums[1].name

-----------------------------------------------------------------------------
(* C18 *)

\* C18: perform_command("mood " + t) leaves the mood hint equal to t with
\* the white space around it removed, perform_command("mood") leaves it
\* none, and neither changes the cursor, the queue or the history.
C18_MoodSetAndClear ==
    [][\A t \in UIThreads : \A raw \in Commands :
         perform_command(t, raw) =>
            /\ StartsWith(raw, W_mood_sp) =>
                  /\ mood_hint' = MoodText(Strip(DropFirst(raw, 5)))
                  /\ UNCHANGED << current_index, queue, history >>
            /\ raw = W_mood =>
                  /\ mood_hint' = MoodNone
                  /\ UNCHANGED << current_index, queue, history >>]_vars

-----------------------------------------------------------------------------
(* C19 *)

\* the text, trimmed and case-folded, is none of the recognized forms
Unrecognized(raw) ==
    LET c == Lower(Strip(raw))
    IN  /\ c \notin {W_skip, W_next, W_prev, W_previous, W_back, W_pause,
                      W_stop, W_play, W_mood, W_now}
        /\ ~StartsWith(c, W_mood_sp)
        /\ ~StartsWith(c, W_voice_sp)

\* the command texts of the model that are none of the recognized forms
UnrecognizedCommands == {raw \in Commands : Unrecognized(raw)}

\* C19: perform_command on a text that is none of the recognized forms
\* returns the record of the unknown command, raises nothing, and leaves
\* the cursor, the queue, the mood hint, the playing flag, the selected
\* voice and the history as they were.
C19_UnknownCommand ==
    [][\A t \in UIThreads :
         (pc[t] = "idle" /\ pc'[t] = "idle" /\ ops_left' = ops_left - 1) =>
            \A raw \in UnrecognizedCommands :
               perform_command(t, raw) =>
                  /\ result'[t] = "unknown command"
                  /\ UNCHANGED << current_index, queue, mood_hint,
                                  is_playing, voice, history >>]_vars

\* an unknown command has been answered with a mood hint set and a track
\* in the history
C19_Witness ==
    \E t \in UIThreads :
        /\ result[t] = "unknown command"
        /\ mood_hint.kind = "str"
        /\ history # << >>

-----------------------------------------------------------------------------
(* C20 *)

\* C20: once a stop has been requested (stop_all(), or the stop control of
\* a front-end) no track is started again, the history does not grow, the
\* player stays stopped and start() does not stand in its supervisory
\* loop.
C20_StoppedIsTerminal ==
    stop_mark.set =>
        /\ play_seq = stop_mark.seq
        /\ Len(history) = stop_mark.len
        /\ player.state = "stopped"
        /\ pc["main"] # "start_loop"

-----------------------------------------------------------------------------
(* Mood-directed transitions *)

\* the library entries whose track name, without its extension and in lower
\* case, is the stem of the answer
MoodMatches(lib, answer) ==
    LET ans == Lower(Strip(answer))
    IN  IF ans = NoText THEN {}
        ELSE { e \in { AllPairs(lib)[i] : i \in 1..Len(AllPairs(lib)) } :
                 Lower(PathStem(e.track)) = PathStem(ans) }

\* C21: in a track-end transition under a mood hint, an answer that names a
\* track of the library, in whatever album and whatever case, makes the
\* lookup hand that track's entry to the insertion at the front of the queue
\* (which then puts the cursor on 0); an answer that names no track hands
\* over nothing, so that the queue stays as it is and the entry at the
\* advanced cursor plays.
C21_MoodMatchGoesFirst ==
    [][\A t \in Threads : pc[t] = "mood_ask" =>
          \A r \in MoodAnswers : choose_next_by_mood_return(t, r) =>
             LET m == MoodMatches(albums, ask_ollama(ollama_up, r))
             IN  /\ pc'[t] = "te_apply"
                 /\ IF m = {}
                    THEN mood_path'[t].kind = "none"
                    ELSE /\ mood_path'[t].kind = "found"
                         /\ mood_path'[t].entry \in m]_vars

-----------------------------------------------------------------------------
(* The voice *)

\* C22: the speak() calls are serialized: at most one utterance is in
\* progress at any time, so an utterance begins only after the one before
\* it has completed.
C22_OneUtteranceAtATime == tts_speaking <= 1

\* an utterance is in progress while the thread of a later speak() waits
C22_Witness == tts_speaking = 1 /\ tts_waiting >= 1

-----------------------------------------------------------------------------
(* The commentary protocol *)

\* C23: the commentary protocol ducks the music before it calls the
\* commentary source, and the source is called while the music is ducked:
\* while a begin-playing execution waits for the answer of the source, the
\* player's volume is the duck level.
C23_DuckedWhileFetching ==
    \A t \in Threads : pc[t] = "host_ask" => player.volume = duck_to


\* some begin-playing execution is between the duck and the restore of its
\* commentary protocol
Ducking == \E t \in Threads : pc[t] \in {"host_speak", "host_restore"}

\* C24: every duck is followed by a restore.  Once a begin-playing execution
\* has set the volume, the player's volume is the music level whenever no
\* begin-playing execution is in flight, and it is the duck level only while
\* some commentary protocol is between its duck and its restore.
C24_DuckThenRestore ==
    /\ (play_seq >= 1 /\ \A t \in Threads : pc[t] \notin BeginPlaying)
          => player.volume = music_vol
    /\ player.volume = duck_to => Ducking

\* two executions have started, one is past its restore and the other is
\* between its duck and its restore
C24_Witness ==
    /\ player.volume = duck_to
    /\ \E t, u \in Threads : pc[t] = "host_restore" /\ pc[u] = "play_log"


\* C25: speech dispatch never blocks begin playing.  An execution that has
\* reached the dispatch can always take it, one that has dispatched can
\* always restore the volume, and one that has restored can always append
\* its history entry, whatever the voice engine is doing: busy with an
\* earlier utterance, or never done with it.
C25_DispatchNeverBlocks ==
    \A t \in Threads :
       /\ pc[t] = "host_speak" => ENABLED host_commentary_speak(t)
       /\ pc[t] = "host_restore" => ENABLED host_commentary_restore(t)
       /\ pc[t] = "play_log" => ENABLED play_current_log(t)

\* an execution is at the dispatch while the engine is busy with an earlier
\* utterance
C25_Witness ==
    \E t \in Threads : pc[t] = "host_speak" /\ tts_busy /\ tts_speaking = 1

-----------------------------------------------------------------------------
(* The log sink *)

\* C26: a failure of the external log sink is not fatal.  When the CSV write
\* of a begin-playing execution fails, the entry it appended stays in the
\* history, the execution completes normally (it returns to its caller,
\* with no exception), and the lock is not left held by it.
C26_SinkFailureNotFatal ==
    [][\A t \in Threads : pc[t] = "play_sink" =>
          (play_current_log_sink(t, "failed") =>
              /\ history' = history
              /\ \E i \in 1..Len(history) : history[i] = HistoryEntry(t)
              /\ result'[t] \notin Failures
              /\ lock' # t)]_vars

-----------------------------------------------------------------------------
(* Player, cursor and history at rest *)

\* C27: whenever start() is past its initial play and no operation is in
\* flight, the track loaded in the player, the entry at queue[cursor] and
\* the album and track of the last history entry are the same track.
C27_PlayerCursorHistoryAgree ==
    (InitialPlayDone /\ Quiet) =>
        LET e == CurrentEntry(queue, current_index)
            h == history[Len(history)]
        IN  /\ player.media = e.track
            /\ h.album = e.album
            /\ h.track = e.track

-----------------------------------------------------------------------------
(* One track end, one begin playing *)

\* C28: a natural end of a track causes exactly one begin playing: the
\* handler that VLC calls for it ends at the end of the one begin-playing
\* execution it ran, with the one history entry of the track it started in
\* the history, having advanced the cursor once.
C28_OneBeginPerTrackEnd ==
    [][(op["vlc"] = "track_end" /\ op'["vlc"] = "none") =>
          /\ pc["vlc"] = "play_sink"
          /\ Cardinality({i \in 1..Len(history) :
                             history[i].exec = exec_no["vlc"]}) = 1
          /\ history' = history]_vars

=============================================================================
